---- MODULE Spec2Model ----
(***************************************************************************)
(* Model of extract_shas.py: the script opens tree_client.json, parses it  *)
(* as JSON, walks data['tree'], keeps the entries whose path starts with   *)
(* 'src/components/ui/' or equals 'src/lib/utils.ts' in a dict path -> sha *)
(* and prints that dict as JSON.                                           *)
(*                                                                         *)
(* Strings are sequences of one-character strings, JSON values are tagged  *)
(* records, a Python dict built by the script is the sequence of its       *)
(* (key, value) pairs in insertion order.  The script is run twice on the  *)
(* same file system; between the two runs the file may be edited once.     *)
(***************************************************************************)
EXTENDS Naturals, Sequences, FiniteSets

\* Longest `tree` array the input file holds.
MaxLen == 3

----------------------------------------------------------------------------
\* String literals of the script.

\* 'tree'
s_tree == <<"t","r","e","e">>
\* 'path'
s_path == <<"p","a","t","h">>
\* 'sha'
s_sha == <<"s","h","a">>
\* 'src/components/ui/'
s_prefix == <<"s","r","c","/","c","o","m","p","o","n","e","n","t","s","/","u","i","/">>
\* 'src/lib/utils.ts'
s_utils == <<"s","r","c","/","l","i","b","/","u","t","i","l","s",".","t","s">>

\* Fields of the input the script never names: a per-entry one and a
\* top-level one.
s_mode == <<"m","o","d","e">>
s_truncated == <<"t","r","u","n","c","a","t","e","d">>

----------------------------------------------------------------------------
\* JSON values as json.load builds them.

JNull == [t |-> "null"]
JNum == [t |-> "int"]
JStr(s) == [t |-> "str", s |-> s]
JArr(a) == [t |-> "list", a |-> a]
JObj(o) == [t |-> "dict", o |-> o]

\* The file system entry tree_client.json: absent, not JSON, or a JSON text
\* (held as the value it denotes).
FileMissing == [t |-> "ENOENT"]
FileGarbage == [t |-> "garbage"]

\* Value of a name that is not bound yet.
Unbound == [t |-> "unbound"]

\* Result of evaluating an expression: a value or a raised exception.
Ok(v) == [ok |-> TRUE, v |-> v]
Raise(e) == [ok |-> FALSE, exc |-> e]

\* The empty function (a dict without keys).
EmptyFn == [k \in {} |-> JNull]

\* Some enumeration of a finite set as a sequence.
RECURSIVE SetToSeq(_)
SetToSeq(S) ==
  IF S = {} THEN <<>>
  ELSE LET x == CHOOSE y \in S : TRUE IN <<x>> \o SetToSeq(S \ {x})

\* obj[key] for a str key.
GetItem(obj, key) ==
  IF obj.t = "dict"
  THEN IF key \in DOMAIN obj.o THEN Ok(obj.o[key]) ELSE Raise("KeyError")
  ELSE Raise("TypeError")

\* iter(v), exhausted: the items a for loop over v visits.
Iter(v) ==
  CASE v.t = "list" -> Ok(v.a)
    [] v.t = "str"  -> Ok([j \in 1..Len(v.s) |-> JStr(<<v.s[j]>>)])
    [] v.t = "dict" -> Ok([j \in 1..Cardinality(DOMAIN v.o) |->
                             JStr(SetToSeq(DOMAIN v.o)[j])])
    [] OTHER        -> Raise("TypeError")

\* str.startswith
StartsWith(s, p) == Len(s) >= Len(p) /\ SubSeq(s, 1, Len(p)) = p

\* The condition with the '/' that ends the prefix dropped.
IncludedNoSlash(s) ==
  StartsWith(s, SubSeq(s_prefix, 1, Len(s_prefix) - 1)) \/ s = s_utils

\* The condition without its second disjunct.
IncludedPrefixOnly(s) == StartsWith(s, s_prefix)

\* The condition of the if statement, for a str path.
Included(s) == StartsWith(s, s_prefix) \/ s = s_utils

\* d.setdefault(k, v): an existing key keeps its value.
DictSetDefault(d, k, v) ==
  IF \E j \in 1..Len(d) : d[j][1] = k THEN d ELSE Append(d, <<k, v>>)

\* d.pop(k, None); d[k] = v: an existing key moves to the end.
DictSetMoveToEnd(d, k, v) ==
  Append(SelectSeq(d, LAMBDA e : e[1] # k), <<k, v>>)

\* d[k] = v on an insertion-ordered dict.
DictSet(d, k, v) ==
  IF \E j \in 1..Len(d) : d[j][1] = k
  THEN [j \in 1..Len(d) |-> IF d[j][1] = k THEN <<k, v>> ELSE d[j]]
  ELSE Append(d, <<k, v>>)

\* json.dumps(d, indent=2): the members of the printed object, in the
\* dict's order.
Dumps(d) == [j \in 1..Len(d) |-> [key |-> d[j][1], value |-> d[j][2]]]

\* The loop body storing the whole item: ui_files[path] = item.
BodyStoresItem(d, item) ==
  LET p == GetItem(item, s_path) IN
  IF ~p.ok THEN p
  ELSE IF p.v.t # "str" THEN Raise("AttributeError")
  ELSE IF Included(p.v.s) THEN Ok(DictSet(d, p.v, item)) ELSE Ok(d)

\* The body of the for loop on one item, from dict d: the dict afterwards
\* or the exception raised.
Body(d, item) ==
  LET p == GetItem(item, s_path) IN
  IF ~p.ok THEN p
  ELSE IF p.v.t # "str" THEN Raise("AttributeError")
  ELSE IF Included(p.v.s)
       THEN LET h == GetItem(item, s_sha) IN
            IF ~h.ok THEN h ELSE Ok(DictSet(d, p.v, h.v))
       ELSE Ok(d)

----------------------------------------------------------------------------
\* Input files.

\* 'src/components/ui/a', 'src/lib/utils.ts' and the near miss
\* 'src/components/ui'.
Paths == { JStr(s_prefix \o <<"a">>), JStr(s_utils), JStr(SubSeq(s_prefix, 1, Len(s_prefix) - 1)) }
Shas == { JStr(<<"1">>), JStr(<<"2">>) }

\* An object from optional members: each argument is empty or a singleton.
Entry(ps, hs, ms) ==
  LET dom == (IF ps = {} THEN {} ELSE {s_path}) \cup
             (IF hs = {} THEN {} ELSE {s_sha}) \cup
             (IF ms = {} THEN {} ELSE {s_mode})
  IN JObj([k \in dom |-> IF k = s_path THEN CHOOSE x \in ps : TRUE
                         ELSE IF k = s_sha THEN CHOOSE x \in hs : TRUE
                         ELSE CHOOSE x \in ms : TRUE])

Opt(S) == {{}} \cup {{x} : x \in S}

\* Elements of `tree`: objects with or without path and sha, an object whose
\* path is a number, and a number.
Entries == { Entry(ps, hs, {}) : ps \in Opt(Paths), hs \in Opt(Shas) }
           \cup { Entry({JNum}, {JStr(<<"1">>)}, {}), JNum }

Trees == UNION { [1..n -> Entries] : n \in 0..MaxLen }

\* Values of `tree` that are not arrays.
NonLists == { JNull, JNum, JStr(<<>>), JStr(s_sha), JObj(EmptyFn),
              JObj([k \in {s_sha} |-> JNum]) }

Doc(tree) == JObj([k \in {s_tree} |-> tree])

Files == { FileMissing, FileGarbage, JNull, JArr(<<>>), JObj(EmptyFn) }
         \cup { Doc(JArr(a)) : a \in Trees }
         \cup { Doc(v) : v \in NonLists }

----------------------------------------------------------------------------
VARIABLES fs, run, edited, firstFs, prevOut, pc, f, data, ui_files, items, i,
          stdout, exc

vars == <<fs, run, edited, firstFs, prevOut, pc, f, data, ui_files, items, i,
          stdout, exc>>

env == <<fs, run, edited, firstFs, prevOut>>

Init ==
  /\ fs \in Files
  /\ run = 1
  /\ edited = FALSE
  /\ firstFs = fs
  /\ prevOut = <<>>
  /\ pc = "open"
  /\ f = "none"
  /\ data = Unbound
  /\ ui_files = <<>>
  /\ items = <<>>
  /\ i = 0
  /\ stdout = <<>>
  /\ exc = "none"

\* open('tree_client.json', 'w+'): creates or truncates the file.
OpenTruncating ==
  /\ pc = "open"
  /\ fs' = FileGarbage
  /\ pc' = "load"
  /\ f' = "open"
  /\ UNCHANGED <<run, edited, firstFs, prevOut, data, ui_files, items, i, stdout, exc>>

\* with open('tree_client.json', 'r') as f:
Open ==
  /\ pc = "open"
  /\ IF fs = FileMissing
     THEN pc' = "error" /\ exc' = "FileNotFoundError" /\ f' = f
     ELSE pc' = "load" /\ exc' = exc /\ f' = "open"
  /\ UNCHANGED <<env, data, ui_files, items, i, stdout>>

\* data = json.load(f)
Load ==
  /\ pc = "load"
  /\ IF fs = FileGarbage
     THEN exc' = "JSONDecodeError" /\ data' = data
     ELSE exc' = exc /\ data' = fs
  /\ pc' = "exit"
  /\ UNCHANGED <<env, f, ui_files, items, i, stdout>>

\* f.close() after json.load instead of a with block: skipped when
\* json.load raises.
ExitLeaks ==
  /\ pc = "exit"
  /\ f' = IF exc = "none" THEN "closed" ELSE f
  /\ pc' = IF exc = "none" THEN "init" ELSE "error"
  /\ UNCHANGED <<env, data, ui_files, items, i, stdout, exc>>

\* Leaving the with block, normally or by the exception of json.load.
Exit ==
  /\ pc = "exit"
  /\ f' = "closed"
  /\ pc' = IF exc = "none" THEN "init" ELSE "error"
  /\ UNCHANGED <<env, data, ui_files, items, i, stdout, exc>>

\* ui_files = {}
NewDict ==
  /\ pc = "init"
  /\ ui_files' = <<>>
  /\ pc' = "for"
  /\ UNCHANGED <<env, f, data, items, i, stdout, exc>>

\* for item in data['tree']:   (evaluating the iterable)
ForIter ==
  /\ pc = "for"
  /\ LET t == GetItem(data, s_tree)
         it == IF t.ok THEN Iter(t.v) ELSE t
     IN IF it.ok
        THEN items' = it.v /\ i' = 1 /\ pc' = "item" /\ exc' = exc
        ELSE items' = items /\ i' = i /\ pc' = "error" /\ exc' = it.exc
  /\ UNCHANGED <<env, f, data, ui_files, stdout>>

\* The print statement indented into the loop body.
ForItemPrinting ==
  /\ pc = "item"
  /\ i <= Len(items)
  /\ LET r == Body(ui_files, items[i])
     IN IF r.ok
        THEN /\ ui_files' = r.v /\ i' = i + 1 /\ pc' = pc /\ exc' = exc
             /\ stdout' = Append(stdout, Dumps(r.v))
        ELSE /\ ui_files' = ui_files /\ i' = i /\ pc' = "error" /\ exc' = r.exc
             /\ stdout' = stdout
  /\ UNCHANGED <<env, f, data, items>>

\* One pass through the loop body.
ForItem ==
  /\ pc = "item"
  /\ i <= Len(items)
  /\ LET r == Body(ui_files, items[i])
     IN IF r.ok
        THEN ui_files' = r.v /\ i' = i + 1 /\ pc' = pc /\ exc' = exc
        ELSE ui_files' = ui_files /\ i' = i /\ pc' = "error" /\ exc' = r.exc
  /\ UNCHANGED <<env, f, data, items, stdout>>

\* The iterator is exhausted.
ForEnd ==
  /\ pc = "item"
  /\ i > Len(items)
  /\ pc' = "print"
  /\ UNCHANGED <<env, f, data, ui_files, items, i, stdout, exc>>

\* print(json.dumps(ui_files, indent=2))
PrintDumps ==
  /\ pc = "print"
  /\ stdout' = Append(stdout, Dumps(ui_files))
  /\ pc' = "done"
  /\ UNCHANGED <<env, f, data, ui_files, items, i, exc>>

Terminated == pc \in {"done", "error"}

\* The file is edited between the two runs: an entry gains or loses a field
\* the script does not name, the document gains or loses such a field, or an
\* entry's sha changes.
ToggleKey(o, k, v) ==
  IF k \in DOMAIN o
  THEN [x \in DOMAIN o \ {k} |-> o[x]]
  ELSE [x \in DOMAIN o \cup {k} |-> IF x = k THEN v ELSE o[x]]

SetKey(o, k, v) == [x \in DOMAIN o \cup {k} |-> IF x = k THEN v ELSE o[x]]

IsDoc(v) == v.t = "dict" /\ s_tree \in DOMAIN v.o /\ v.o[s_tree].t = "list"

EditFile ==
  /\ Terminated
  /\ run = 1
  /\ ~edited
  /\ fs.t = "dict"
  /\ \/ fs' = JObj(ToggleKey(fs.o, s_truncated, JNum))
     \/ /\ IsDoc(fs)
        /\ \E j \in 1..Len(fs.o[s_tree].a) :
             LET a == fs.o[s_tree].a
                 e == a[j]
             IN /\ e.t = "dict"
                /\ \/ fs' = JObj(SetKey(fs.o, s_tree,
                               JArr([a EXCEPT ![j] = JObj(ToggleKey(e.o, s_mode, JNum))])))
                   \/ \E h \in Shas :
                        /\ s_sha \in DOMAIN e.o
                        /\ e.o[s_sha] # h
                        /\ fs' = JObj(SetKey(fs.o, s_tree,
                                    JArr([a EXCEPT ![j] = JObj(SetKey(e.o, s_sha, h))])))
  /\ edited' = TRUE
  /\ UNCHANGED <<run, firstFs, prevOut, pc, f, data, ui_files, items, i, stdout, exc>>

\* The script is invoked a second time: a fresh process on the same files.
Rerun ==
  /\ Terminated
  /\ run = 1
  /\ run' = 2
  /\ prevOut' = stdout
  /\ pc' = "open"
  /\ f' = "none"
  /\ data' = Unbound
  /\ ui_files' = <<>>
  /\ items' = <<>>
  /\ i' = 0
  /\ stdout' = <<>>
  /\ exc' = "none"
  /\ UNCHANGED <<fs, firstFs, edited>>

Next ==
  \/ Open
  \/ Load
  \/ Exit
  \/ NewDict
  \/ ForIter
  \/ ForItem
  \/ ForEnd
  \/ PrintDumps
  \/ EditFile
  \/ Rerun

Spec == Init /\ [][Next]_vars

----------------------------------------------------------------------------
\* Vocabulary of the properties.

\* The `tree` array of a well-shaped document.
TreeOf(v) == v.o[s_tree].a

\* A valid input: `tree` is an array of objects that each have a str path
\* and a sha.
ValidDoc(v) ==
  /\ IsDoc(v)
  /\ \A j \in 1..Len(TreeOf(v)) :
       LET e == TreeOf(v)[j] IN
       /\ e.t = "dict"
       /\ s_path \in DOMAIN e.o
       /\ s_sha \in DOMAIN e.o
       /\ e.o[s_path].t = "str"

PathAt(v, j) == TreeOf(v)[j].o[s_path]
ShaAt(v, j) == TreeOf(v)[j].o[s_sha]

\* The inclusion rule as the specification words it, character by character.
InclusionRule(s) ==
  \/ /\ Len(s) >= Len(s_prefix)
     /\ \A k \in 1..Len(s_prefix) : s[k] = s_prefix[k]
  \/ /\ Len(s) = Len(s_utils)
     /\ \A k \in 1..Len(s_utils) : s[k] = s_utils[k]

\* The run has completed and printed.
Printed == pc = "done" /\ Len(stdout) = 1

\* The printed object.
Out == stdout[1]

\* Position of the last entry of the tree with the path of entry j.
LastWithPath(v, j) ==
  CHOOSE m \in j..Len(TreeOf(v)) :
    /\ PathAt(v, m) = PathAt(v, j)
    /\ \A n \in (m + 1)..Len(TreeOf(v)) : PathAt(v, n) # PathAt(v, j)

\* The included paths of a tree in the order of their first occurrence.
RECURSIVE FirstEncounter(_, _)
FirstEncounter(v, n) ==
  IF n = 0 THEN <<>>
  ELSE LET before == FirstEncounter(v, n - 1) IN
       IF /\ InclusionRule(PathAt(v, n).s)
          /\ \A m \in 1..(n - 1) : PathAt(v, m) # PathAt(v, n)
       THEN Append(before, PathAt(v, n))
       ELSE before

----------------------------------------------------------------------------
\* C1: every key of the printed mapping, and every key the dict ever holds,
\* starts with 'src/components/ui/' or is exactly 'src/lib/utils.ts'.
C1_KeysSatisfyRule ==
  /\ \A j \in 1..Len(ui_files) : InclusionRule(ui_files[j][1].s)
  /\ \A n \in 1..Len(stdout) : \A j \in 1..Len(stdout[n]) :
       InclusionRule(stdout[n][j].key.s)

\* A valid document with an excluded and an included entry has been printed.
C1_Witness ==
  /\ Printed
  /\ ValidDoc(data)
  /\ Len(Out) >= 1
  /\ \E j \in 1..Len(TreeOf(data)) : ~InclusionRule(PathAt(data, j).s)

\* C2 as stated: every entry that satisfies the rule appears as a key of the
\* output with that entry's own sha.
C2_EveryEntryWithOwnSha ==
  (Printed /\ ValidDoc(data)) =>
    \A j \in 1..Len(TreeOf(data)) :
      InclusionRule(PathAt(data, j).s) =>
        \E m \in 1..Len(Out) :
          Out[m].key = PathAt(data, j) /\ Out[m].value = ShaAt(data, j)

\* C2 amended: every entry that satisfies the rule has its path as a key of
\* the output, and the value there is the sha of the last entry of the tree
\* with that path (the entry's own sha when no later entry repeats the path).
C2_EveryEntryWithLastSha ==
  (Printed /\ ValidDoc(data)) =>
    \A j \in 1..Len(TreeOf(data)) :
      InclusionRule(PathAt(data, j).s) =>
        \E m \in 1..Len(Out) :
          /\ Out[m].key = PathAt(data, j)
          /\ Out[m].value = ShaAt(data, LastWithPath(data, j))

\* Printed: a valid document holding both kinds of included path and an
\* excluded one.
C2_Witness ==
  /\ Printed
  /\ ValidDoc(data)
  /\ \E j \in 1..Len(TreeOf(data)) : PathAt(data, j).s = s_utils
  /\ \E j \in 1..Len(TreeOf(data)) : StartsWith(PathAt(data, j).s, s_prefix)
  /\ \E j \in 1..Len(TreeOf(data)) : ~InclusionRule(PathAt(data, j).s)

\* C3: an included path that occurs more than once in the tree is one key of
\* the output, and its value is the sha of the last occurrence.
C3_LastDuplicateWins ==
  (Printed /\ ValidDoc(data)) =>
    \A j, k \in 1..Len(TreeOf(data)) :
      (j < k /\ PathAt(data, j) = PathAt(data, k) /\ InclusionRule(PathAt(data, j).s)) =>
        /\ Cardinality({m \in 1..Len(Out) : Out[m].key = PathAt(data, j)}) = 1
        /\ \A m \in 1..Len(Out) :
             Out[m].key = PathAt(data, j) =>
               Out[m].value = ShaAt(data, LastWithPath(data, j))

\* Printed: an included path occurs twice, with different hashes.
C3_Witness ==
  /\ Printed
  /\ ValidDoc(data)
  /\ \E j, k \in 1..Len(TreeOf(data)) :
       /\ j < k
       /\ PathAt(data, j) = PathAt(data, k)
       /\ InclusionRule(PathAt(data, j).s)
       /\ ShaAt(data, j) # ShaAt(data, k)

\* C4: the keys of the output, in order, are the included paths in the order
\* of their first occurrence in the tree.
C4_FirstEncounterOrder ==
  (Printed /\ ValidDoc(data)) =>
    [m \in 1..Len(Out) |-> Out[m].key] = FirstEncounter(data, Len(TreeOf(data)))

\* Printed: a path, then another included path, then the first path again
\* with a different hash.
C4_Witness ==
  /\ Printed
  /\ ValidDoc(data)
  /\ \E j, k, n \in 1..Len(TreeOf(data)) :
       /\ j < k /\ k < n
       /\ PathAt(data, j) = PathAt(data, n)
       /\ PathAt(data, j) # PathAt(data, k)
       /\ InclusionRule(PathAt(data, j).s)
       /\ InclusionRule(PathAt(data, k).s)
       /\ ShaAt(data, j) # ShaAt(data, n)

\* C5 as stated: when the parsed document has no `tree` member, or `tree` is
\* not an array, the run does not complete and prints nothing.
C5_BadTreeFails ==
  (data # Unbound /\ ~IsDoc(data)) => (pc # "done" /\ stdout = <<>>)

\* C6 as stated: when an entry of `tree` lacks path or sha, the run does not
\* complete and prints nothing.
C6_BadEntryFails ==
  (IsDoc(data) /\ \E j \in 1..Len(TreeOf(data)) :
                    /\ TreeOf(data)[j].t = "dict"
                    /\ \/ s_path \notin DOMAIN TreeOf(data)[j].o
                       \/ s_sha \notin DOMAIN TreeOf(data)[j].o)
    => (pc # "done" /\ stdout = <<>>)

\* C7: a run that ends in an error has printed nothing; whatever is on
\* standard output was written by a run that completed, after every item of
\* the tree had passed the loop body, and is one object holding the whole
\* dict.
C7_AllOrNothing ==
  /\ pc = "error" => stdout = <<>>
  /\ stdout # <<>> =>
       /\ pc = "done"
       /\ exc = "none"
       /\ i = Len(items) + 1
       /\ Len(stdout) = 1
       /\ Len(stdout[1]) = Len(ui_files)
       /\ \A j \in 1..Len(ui_files) :
            stdout[1][j].key = ui_files[j][1] /\ stdout[1][j].value = ui_files[j][2]

\* The run failed on a malformed entry after an earlier entry had matched.
C7_Witness ==
  /\ pc = "error"
  /\ exc = "KeyError"
  /\ i >= 2
  /\ ui_files # <<>>

\* Two documents agree on the length of `tree` and, position by position,
\* on path and sha.
SamePathsAndShas(v, w) ==
  /\ IsDoc(v)
  /\ IsDoc(w)
  /\ Len(TreeOf(v)) = Len(TreeOf(w))
  /\ \A j \in 1..Len(TreeOf(v)) :
       /\ GetItem(TreeOf(v)[j], s_path) = GetItem(TreeOf(w)[j], s_path)
       /\ GetItem(TreeOf(v)[j], s_sha) = GetItem(TreeOf(w)[j], s_sha)

\* C8: when the file of the second run differs from the file of the first
\* run only in fields other than `tree`, path and sha, the second run's
\* output is the first run's output.
C8_ExtraFieldsIgnored ==
  (run = 2 /\ Terminated /\ fs # firstFs /\ SamePathsAndShas(firstFs, fs)) =>
    stdout = prevOut

\* The second run printed a non-empty mapping from a file in which an
\* included entry carries a field the first run's file did not have.
C8_Witness ==
  /\ run = 2
  /\ Printed
  /\ Len(Out) >= 1
  /\ SamePathsAndShas(firstFs, fs)
  /\ \E j \in 1..Len(TreeOf(fs)) :
       /\ TreeOf(fs)[j].t = "dict"
       /\ s_mode \in DOMAIN TreeOf(fs)[j].o
       /\ s_mode \notin DOMAIN TreeOf(firstFs)[j].o
       /\ s_path \in DOMAIN TreeOf(fs)[j].o
       /\ TreeOf(fs)[j].o[s_path].t = "str"
       /\ InclusionRule(TreeOf(fs)[j].o[s_path].s)

\* C9: a run leaves the input file as it found it, and a second run on the
\* unedited file ends with the output of the first.
C9_RerunSameOutput ==
  ~edited =>
    /\ fs = firstFs
    /\ (run = 2 /\ Terminated) => stdout = prevOut

\* The second run on the unedited file printed a non-empty mapping.
C9_Witness ==
  /\ run = 2
  /\ ~edited
  /\ Printed
  /\ Len(Out) >= 2

\* C10: the file handle is never open once the with block is left: not in
\* the loop, not when output is written, not when the run has ended; a run
\* that ended with the handle never opened is one whose open failed.
C10_HandleReleased ==
  /\ pc \in {"init", "for", "item", "print", "done"} => f = "closed"
  /\ stdout # <<>> => f = "closed"
  /\ Terminated => f # "open"
  /\ (Terminated /\ f = "none") => exc = "FileNotFoundError"

\* The run ended on a parse error, with the handle closed.
C10_Witness ==
  /\ pc = "error"
  /\ exc = "JSONDecodeError"
  /\ f = "closed"

====
